---- MODULE Spec2Model ----
(***************************************************************************)
(* State-machine model of the orchestration layer of agent-pattern:        *)
(*   PromptChainPattern      (strategy/promptChaining.ts)                  *)
(*   ParallelizationPattern  (strategy/parallelization.ts)                 *)
(* over the abstract Agent capability (agents/agent.ts: process,           *)
(* processStream).  A text is a sequence of tokens.  An agent is opaque to *)
(* the orchestration layer: every call to it is logged in `calls`, and the *)
(* environment settles it with any text, any failure, or never.            *)
(* Logger calls only print and never throw; they are left out.             *)
(***************************************************************************)
EXTENDS Integers, Sequences, FiniteSets, TLC

\* ------------------------------------------------------------------ bounds
MaxAgents  == 3      \* longest agent list handed to the chain constructor
MaxWorkers == 2      \* longest worker list handed to the group constructor
MaxChunks  == 2      \* most chunks one processStream call yields
MaxTools   == 2      \* longest tool list handed to the Agent constructor

AgentIds == {"a", "b"}                 \* agent objects
Texts    == {<<"x">>, <<"y">>}         \* texts callers pass and agents return
Errors   == {"e1", "e2"}               \* failures an agent call can raise
NoError  == "none"
NoAgent  == "none"                     \* a field not yet set

ChainCtorError == "PromptChain requires at least one Agent"
ParCtorError   == "ParallelizationPattern requires at least one parallel agent"
MismatchError  == "Number of prompts must match number of parallel agents"

SeqsUpTo(S, n) == UNION {[1..k -> S] : k \in 0..n}

\* ------------------------------------------------------------------- state
VARIABLES
  chainArg,      \* the agents argument the PromptChainPattern constructor got
  chainState,    \* "none" | "constructed" | "threw": the PromptChainPattern object
  chainAgents,   \* PromptChainPattern.agents
  op,            \* "none" | "run" | "runStream": the operation invoked on the chain
  pc,            \* where that operation stands
  promptInput,   \* the argument of run / runStream
  currentInput,  \* the local currentInput
  i,             \* 1-based position of the stage last started
  result,        \* the text run returned (meaningful when pc = "done", op = "run")
  error,         \* the failure the operation or constructor raised, or NoError
  yielded,       \* the chunks the consumer of runStream has received, in order
  calls,         \* log of every Agent.process / Agent.processStream call
  settled,       \* indices of calls, in the order the environment settled them
  parArg,        \* the options argument the ParallelizationPattern constructor got
  parState,      \* "none" | "constructed" | "threw": the ParallelizationPattern
  parAgents,     \* ParallelizationPattern.agents
  aggregator,    \* ParallelizationPattern.aggregator
  prompts,       \* the argument of ParallelizationPattern.run
  ppc,           \* where ParallelizationPattern.run stands
  taskPromises,  \* the local taskPromises: the call of each worker, by index
  results,       \* the local results
  aggregatedPrompt, \* the local aggregatedPrompt
  presult,       \* the text ParallelizationPattern.run returned
  perror,        \* the failure ParallelizationPattern (constructor or run) raised
  options,       \* the options argument the Agent constructor got
  agentState,    \* "none" | "constructed" | "threw": the Agent object
  this,         \* the Agent's fields
  agentError,    \* the error the Agent constructor threw
  hpc,           \* where the helper call stands: "idle" | "await" | "returned" | "threw"
  helper,        \* the history helper or lookup called, with its arguments
  storeCalls,    \* log of every call made to the history store
  hresult,       \* the list a helper returned
  herror,        \* the fault that left a helper, or NoError
  logs,          \* what was passed to logger.error, in order
  found,         \* what getToolByName returned: <<>> (undefined) or <<tool>>
  tmode,         \* "none" | "process" | "processStream": the GeminiAgent turn
  tpc,           \* where the turn stands
  tinput,        \* the argument of process / processStream
  memories,      \* the local memories (what fetchChatHistory returned)
  providerCalls, \* log of every models.generateContent(Stream) call
  toolRuns,      \* log of every tool.raw(args) call
  content,       \* the local content
  tresult,       \* the text process returned
  terror,        \* the error process / processStream threw
  tyielded,      \* the chunks processStream has yielded, in order
  runs           \* the local state of each of two overlapping run calls

chainVars == <<chainArg, chainState, chainAgents, op, pc, promptInput, currentInput, i,
               result, error, yielded>>
parVars   == <<parArg, parState, parAgents, aggregator, prompts, ppc, taskPromises,
               results, aggregatedPrompt, presult, perror>>
agentVars == <<options, agentState, this, agentError, hpc, helper, storeCalls,
               hresult, herror, logs, found>>
turnVars  == <<tmode, tpc, tinput, memories, providerCalls, toolRuns, content,
               tresult, terror, tyielded>>
vars      == <<chainVars, parVars, calls, settled, agentVars, turnVars, runs>>

\* ------------------------------------------------------- the Agent capability
\* A call of agent.process(input) or agent.processStream(input), just made.
\* role: "stage" (chain), "worker" or "aggregator"; pos: its index in the list.
NewCall(role, pos, agent, method, input) ==
  [role |-> role, pos |-> pos, agent |-> agent, method |-> method,
   input |-> input, status |-> "pending", output |-> <<>>, chunks |-> <<>>,
   error |-> NoError]

Pending(k) == calls[k].status = "pending"

\* Settling is an event-loop turn: it happens only while the caller is suspended.
ChainSuspended == pc \in {"await", "await_chunk", "yield", "done", "failed"}

\* The promise of a process call fulfils with text t.
AgentResolve(k, t) ==
  /\ calls[k].method = "process" /\ Pending(k)
  /\ calls' = [calls EXCEPT ![k].status = "resolved", ![k].output = t]
  /\ settled' = Append(settled, k)

\* The promise of a process call, or a processStream generator, fails with e.
AgentReject(k, e) ==
  /\ Pending(k)
  /\ calls' = [calls EXCEPT ![k].status = "rejected", ![k].error = e]
  /\ settled' = Append(settled, k)

\* A processStream generator, asked for its next chunk, yields c.
AgentYield(k, c) ==
  /\ calls[k].method = "processStream" /\ Pending(k)
  /\ Len(calls[k].chunks) < MaxChunks
  /\ calls' = [calls EXCEPT ![k].status = "chunk",
                            ![k].chunks = Append(@, c)]
  /\ UNCHANGED settled

\* A processStream generator, asked for its next chunk, ends normally.
AgentStreamEnd(k) ==
  /\ calls[k].method = "processStream" /\ Pending(k)
  /\ calls' = [calls EXCEPT ![k].status = "resolved"]
  /\ settled' = Append(settled, k)

\* ------------------------------------------------------ PromptChainPattern
\* Variant: the constructor without its emptiness check.
ChainConstructNoCheck(agents) ==
  /\ chainState = "none"
  /\ chainArg' = agents
  /\ chainState' = "constructed"
  /\ chainAgents' = agents
  /\ UNCHANGED <<error, op, pc, promptInput, currentInput, i, result, yielded,
                 calls, settled, parVars, agentVars, turnVars, runs>>

\* constructor(agents)
ChainConstruct(agents) ==
  /\ chainState = "none"
  /\ chainArg' = agents
  /\ IF Len(agents) = 0
       THEN /\ chainState' = "threw"
            /\ error' = ChainCtorError
            /\ UNCHANGED chainAgents
       ELSE /\ chainState' = "constructed"
            /\ chainAgents' = agents
            /\ UNCHANGED error
  /\ UNCHANGED <<op, pc, promptInput, currentInput, i, result, yielded,
                 calls, settled, parVars, agentVars, turnVars, runs>>

\* Variant: runStream's loop bound off by one (i < this.agents.length).
ProcessStagesAll(operation, n) == n

\* Number of stages run through process: all of them in run, all but the last
\* in runStream.
ProcessStages(operation, n) == IF operation = "run" THEN n ELSE n - 1

\* Variant: every stage is fed the initial input.
StageInputInitial(current, initial) == initial

\* The input handed to the next stage.
StageInput(current, initial) == current

\* Variant: the chunk is altered on its way to the consumer.
ForwardTwice(chunk) == chunk \o chunk

\* The chunk runStream yields for a chunk of the last agent.
Forward(chunk) == chunk

\* The body of run / runStream (`operation`) from the top of the for loop, with
\* `cur` the value of currentInput and `done` the number of stages completed,
\* up to its next suspension.
ChainAdvance(operation, cur, done) ==
  LET n == Len(chainAgents) IN
  /\ currentInput' = cur
  /\ IF done < ProcessStages(operation, n)
       THEN \* currentInput = await agent.process(currentInput)
            /\ calls' = Append(calls, NewCall("stage", done + 1,
                           chainAgents[done + 1], "process",
                           StageInput(cur, promptInput)))
            /\ i' = done + 1
            /\ pc' = "await"
            /\ UNCHANGED <<result, yielded>>
       ELSE IF operation = "run"
         THEN \* return currentInput
              /\ pc' = "done"
              /\ result' = cur
              /\ UNCHANGED <<calls, i, yielded>>
         ELSE \* for await (const chunk of lastAgent.processStream(currentInput))
              /\ calls' = Append(calls, NewCall("stage", n, chainAgents[n],
                             "processStream", StageInput(cur, promptInput)))
              /\ i' = n
              /\ pc' = "await_chunk"
              /\ UNCHANGED <<result, yielded>>

\* run(promptInput): runs synchronously to its first await.
Run(x) ==
  /\ chainState = "constructed" /\ op = "none"
  /\ op' = "run"
  /\ promptInput' = x
  /\ ChainAdvance("run", x, 0)
  /\ UNCHANGED <<chainArg, chainState, chainAgents, error, settled, parVars, agentVars, turnVars, runs>>

\* runStream(promptInput): creates the generator; its body has not started.
RunStream(x) ==
  /\ chainState = "constructed" /\ op = "none"
  /\ op' = "runStream"
  /\ promptInput' = x
  /\ pc' = "start"
  /\ UNCHANGED <<chainArg, chainState, chainAgents, currentInput, i, result, error,
                 yielded, calls, settled, parVars, agentVars, turnVars, runs>>

\* The consumer asks the runStream generator for its next chunk.
ConsumerNext ==
  /\ op = "runStream"
  /\ \/ /\ pc = "start"
        /\ ChainAdvance("runStream", promptInput, 0)
     \/ /\ pc = "yield"
        /\ calls' = [calls EXCEPT ![Len(calls)].status = "pending"]
        /\ pc' = "await_chunk"
        /\ UNCHANGED <<currentInput, i, result, yielded>>
  /\ UNCHANGED <<chainArg, chainState, chainAgents, op, promptInput, error, settled,
                 parVars, agentVars, turnVars, runs>>

\* Variant: a failed stage is caught and the loop goes on with the input it had.
ChainResumeContinue ==
  /\ pc = "await"
  /\ LET c == calls[Len(calls)] IN
     \/ /\ c.status = "resolved"
        /\ ChainAdvance(op, c.output, i)
     \/ /\ c.status = "rejected"
        /\ ChainAdvance(op, currentInput, i)
  /\ UNCHANGED <<chainArg, chainState, chainAgents, op, promptInput, error,
                 settled, parVars, agentVars, turnVars, runs>>

\* The awaited agent.process settled: the loop body resumes.
ChainResume ==
  /\ pc = "await"
  /\ LET c == calls[Len(calls)] IN
     \/ /\ c.status = "resolved"
        /\ ChainAdvance(op, c.output, i)
        /\ UNCHANGED error
     \/ /\ c.status = "rejected"
        /\ pc' = "failed"
        /\ error' = c.error
        /\ UNCHANGED <<currentInput, i, result, yielded, calls>>
  /\ UNCHANGED <<chainArg, chainState, chainAgents, op, promptInput, settled, parVars, agentVars, turnVars, runs>>

\* Variant: a failure of the last agent's generator ends the stream normally.
StreamResumeSwallow ==
  /\ pc = "await_chunk"
  /\ LET c == calls[Len(calls)] IN
     \/ /\ c.status = "chunk"
        /\ yielded' = Append(yielded, Forward(c.chunks[Len(c.chunks)]))
        /\ pc' = "yield"
     \/ /\ c.status \in {"resolved", "rejected"}
        /\ pc' = "done"
        /\ UNCHANGED yielded
  /\ UNCHANGED <<chainArg, chainState, chainAgents, op, promptInput,
                 currentInput, i, result, error, calls, settled, parVars, agentVars, turnVars, runs>>

\* The last agent's generator answered: runStream yields, ends or fails.
StreamResume ==
  /\ pc = "await_chunk"
  /\ LET c == calls[Len(calls)] IN
     \/ /\ c.status = "chunk"
        /\ yielded' = Append(yielded, Forward(c.chunks[Len(c.chunks)]))
        /\ pc' = "yield"
        /\ UNCHANGED error
     \/ /\ c.status = "resolved"
        /\ pc' = "done"
        /\ UNCHANGED <<yielded, error>>
     \/ /\ c.status = "rejected"
        /\ pc' = "failed"
        /\ error' = c.error
        /\ UNCHANGED yielded
  /\ UNCHANGED <<chainArg, chainState, chainAgents, op, promptInput, currentInput, i,
                 result, calls, settled, parVars, agentVars, turnVars, runs>>

\* The environment settles the chain's outstanding agent call.
ChainEnv ==
  /\ op # "none" /\ ChainSuspended
  /\ \E k \in 1..Len(calls) :
       \/ \E t \in Texts : AgentResolve(k, t)
       \/ \E e \in Errors : AgentReject(k, e)
       \/ \E c \in Texts : AgentYield(k, c)
       \/ AgentStreamEnd(k)
  /\ UNCHANGED <<chainVars, parVars, agentVars, turnVars, runs>>

\* -------------------------------------------------- ParallelizationPattern
\* Variant: the constructor without its emptiness check.
ParConstructNoCheck(agents, agg) ==
  /\ parState = "none"
  /\ parArg' = [agents |-> agents, aggregator |-> agg]
  /\ parState' = "constructed"
  /\ parAgents' = agents
  /\ aggregator' = agg
  /\ UNCHANGED <<perror, prompts, ppc, taskPromises, results, aggregatedPrompt,
                 presult, calls, settled, chainVars, agentVars, turnVars, runs>>

\* constructor(options): options.agents and options.aggregator.
ParConstruct(agents, agg) ==
  /\ parState = "none"
  /\ parArg' = [agents |-> agents, aggregator |-> agg]
  /\ IF Len(agents) = 0
       THEN /\ parState' = "threw"
            /\ perror' = ParCtorError
            /\ UNCHANGED <<parAgents, aggregator>>
       ELSE /\ parState' = "constructed"
            /\ parAgents' = agents
            /\ aggregator' = agg
            /\ UNCHANGED perror
  /\ UNCHANGED <<prompts, ppc, taskPromises, results, aggregatedPrompt,
                 presult, calls, settled, chainVars, agentVars, turnVars, runs>>

\* parts.join(sep)
RECURSIVE Join(_, _)
Join(parts, sep) ==
  IF Len(parts) = 0 THEN <<>>
  ELSE IF Len(parts) = 1 THEN parts[1]
  ELSE parts[1] \o sep \o Join(Tail(parts), sep)

AggregationHeader ==
  <<"Combine the following outputs into a single cohesive summary:", "\n">>

\* `Result ${i + 1}:\n${res}\n`, idx being the 1-based position i + 1.
ResultBlock(res, idx) == <<"Result ", ToString(idx), ":", "\n">> \o res \o <<"\n">>

\* buildAggregationPrompt(results)
BuildAggregationPrompt(res) ==
  Join(<<AggregationHeader>> \o [k \in 1..Len(res) |-> ResultBlock(res[k], k)],
       <<"\n">>)

\* Variant: the guard only rejects too few prompts.
PromptsMatchAtLeast(ps, agents) == Len(ps) >= Len(agents)

\* The guard of run: do the prompts match the workers?
PromptsMatch(ps, agents) == Len(ps) = Len(agents)

\* Variant: every worker is handed the first prompt.
WorkerPromptFirst(ps, idx) == ps[1]

\* The prompt handed to worker idx.
WorkerPrompt(ps, idx) == ps[idx]

\* this.agents.map((agent, idx) => agent.process(prompts[idx])): the calls made,
\* in index order.
MapProcess(agents, ps) ==
  [k \in 1..Len(agents) |-> NewCall("worker", k, agents[k], "process",
                                    WorkerPrompt(ps, k))]

\* Variant: fulfilled as soon as one call is (Promise.any), the outputs of the
\* others left empty.
PromiseAny(tasks) ==
  IF \E j \in 1..Len(tasks) : calls[tasks[j]].status = "resolved"
    THEN [status |-> "fulfilled", reason |-> NoError,
          values |-> [j \in 1..Len(tasks) |-> calls[tasks[j]].output]]
    ELSE [status |-> "pending", reason |-> NoError, values |-> <<>>]

\* Variant: waits for every call to settle and keeps the outputs of those that
\* were fulfilled (Promise.allSettled), a failed one counting as an empty text.
PromiseAllSettled(tasks) ==
  IF \A j \in 1..Len(tasks) : calls[tasks[j]].status \in {"resolved", "rejected"}
    THEN [status |-> "fulfilled", reason |-> NoError,
          values |-> [j \in 1..Len(tasks) |-> calls[tasks[j]].output]]
    ELSE [status |-> "pending", reason |-> NoError, values |-> <<>>]

\* Variant: the outputs are collected in the order the calls completed.
PromiseAllCompletionOrder(tasks) ==
  LET mine == SelectSeq(settled, LAMBDA k : \E j \in 1..Len(tasks) : tasks[j] = k)
  IN IF \E j \in 1..Len(tasks) : calls[tasks[j]].status = "rejected"
       THEN [status |-> "rejected",
             reason |-> calls[CHOOSE k \in {tasks[j] : j \in 1..Len(tasks)} :
                                calls[k].status = "rejected"].error,
             values |-> <<>>]
     ELSE IF \A j \in 1..Len(tasks) : calls[tasks[j]].status = "resolved"
       THEN [status |-> "fulfilled", reason |-> NoError,
             values |-> [n \in 1..Len(mine) |-> calls[mine[n]].output]]
     ELSE [status |-> "pending", reason |-> NoError, values |-> <<>>]

\* Variant: a failure is reported only once every call has settled.
PromiseAllWaits(tasks) ==
  LET rejected == {n \in 1..Len(settled) :
                     /\ \E j \in 1..Len(tasks) : tasks[j] = settled[n]
                     /\ calls[settled[n]].status = "rejected"}
      first == CHOOSE n \in rejected : \A m \in rejected : n <= m
  IN IF \E j \in 1..Len(tasks) : calls[tasks[j]].status = "pending"
       THEN [status |-> "pending", reason |-> NoError, values |-> <<>>]
     ELSE IF rejected # {}
       THEN [status |-> "rejected", reason |-> calls[settled[first]].error,
             values |-> <<>>]
     ELSE [status |-> "fulfilled", reason |-> NoError,
           values |-> [j \in 1..Len(tasks) |-> calls[tasks[j]].output]]

\* Variant: rejected with the reason of the rejected call of lowest index.
PromiseAllLowestIndex(tasks) ==
  LET rejected == {j \in 1..Len(tasks) : calls[tasks[j]].status = "rejected"}
      first == CHOOSE j \in rejected : \A m \in rejected : j <= m
  IN IF rejected # {}
       THEN [status |-> "rejected", reason |-> calls[tasks[first]].error,
             values |-> <<>>]
     ELSE IF \A j \in 1..Len(tasks) : calls[tasks[j]].status = "resolved"
       THEN [status |-> "fulfilled", reason |-> NoError,
             values |-> [j \in 1..Len(tasks) |-> calls[tasks[j]].output]]
     ELSE [status |-> "pending", reason |-> NoError, values |-> <<>>]

\* Promise.all over the calls `tasks`: rejected with the reason of the first of
\* them to be rejected, fulfilled with the outputs in index order once every
\* one is fulfilled, pending otherwise.
PromiseAll(tasks) ==
  LET rejected == {n \in 1..Len(settled) :
                     /\ \E j \in 1..Len(tasks) : tasks[j] = settled[n]
                     /\ calls[settled[n]].status = "rejected"}
      first == CHOOSE n \in rejected : \A m \in rejected : n <= m
  IN IF rejected # {}
       THEN [status |-> "rejected", reason |-> calls[settled[first]].error,
             values |-> <<>>]
     ELSE IF \A j \in 1..Len(tasks) : calls[tasks[j]].status = "resolved"
       THEN [status |-> "fulfilled", reason |-> NoError,
             values |-> [j \in 1..Len(tasks) |-> calls[tasks[j]].output]]
     ELSE [status |-> "pending", reason |-> NoError, values |-> <<>>]

\* run(prompts): runs synchronously to `await Promise.all(taskPromises)`.
ParRun(ps) ==
  /\ parState = "constructed" /\ ppc = "idle"
  /\ prompts' = ps
  /\ IF ~PromptsMatch(ps, parAgents)
       THEN /\ ppc' = "failed"
            /\ perror' = MismatchError
            /\ UNCHANGED <<calls, taskPromises>>
       ELSE /\ calls' = calls \o MapProcess(parAgents, ps)
            /\ taskPromises' = [k \in 1..Len(parAgents) |-> Len(calls) + k]
            /\ ppc' = "await_all"
            /\ UNCHANGED perror
  /\ UNCHANGED <<parArg, parState, parAgents, aggregator, results, aggregatedPrompt,
                 presult, settled, chainVars, agentVars, turnVars, runs>>

\* Promise.all settled: run resumes, and on success builds the aggregation
\* prompt and calls the aggregator.
ParResume ==
  /\ ppc = "await_all"
  /\ LET all == PromiseAll(taskPromises) IN
     \/ /\ all.status = "rejected"
        /\ ppc' = "failed"
        /\ perror' = all.reason
        /\ UNCHANGED <<results, aggregatedPrompt, calls>>
     \/ /\ all.status = "fulfilled"
        /\ results' = all.values
        /\ aggregatedPrompt' = BuildAggregationPrompt(all.values)
        /\ calls' = Append(calls, NewCall("aggregator", 0, aggregator, "process",
                                          BuildAggregationPrompt(all.values)))
        /\ ppc' = "await_agg"
        /\ UNCHANGED perror
  /\ UNCHANGED <<parArg, parState, parAgents, aggregator, prompts, taskPromises,
                 presult, settled, chainVars, agentVars, turnVars, runs>>

\* Variant: run returns the aggregation prompt instead of the aggregator's text.
ParFinishReturnsPrompt ==
  /\ ppc = "await_agg"
  /\ LET c == calls[Len(calls)] IN
     \/ /\ c.status = "resolved"
        /\ ppc' = "done"
        /\ presult' = aggregatedPrompt
        /\ UNCHANGED perror
     \/ /\ c.status = "rejected"
        /\ ppc' = "failed"
        /\ perror' = c.error
        /\ UNCHANGED presult
  /\ UNCHANGED <<parArg, parState, parAgents, aggregator, prompts, taskPromises,
                 results, aggregatedPrompt, calls, settled, chainVars, agentVars, turnVars, runs>>

\* Variant: a failure of the aggregator is never picked up.
ParFinishOnlyResolved ==
  /\ ppc = "await_agg"
  /\ calls[Len(calls)].status = "resolved"
  /\ ppc' = "done"
  /\ presult' = calls[Len(calls)].output
  /\ UNCHANGED <<parArg, parState, parAgents, aggregator, prompts, taskPromises,
                 results, aggregatedPrompt, calls, settled, perror, chainVars, agentVars, turnVars, runs>>

\* The aggregator's process settled: run returns its text or fails.
ParFinish ==
  /\ ppc = "await_agg"
  /\ LET c == calls[Len(calls)] IN
     \/ /\ c.status = "resolved"
        /\ ppc' = "done"
        /\ presult' = c.output
        /\ UNCHANGED perror
     \/ /\ c.status = "rejected"
        /\ ppc' = "failed"
        /\ perror' = c.error
        /\ UNCHANGED presult
  /\ UNCHANGED <<parArg, parState, parAgents, aggregator, prompts, taskPromises,
                 results, aggregatedPrompt, calls, settled, chainVars, agentVars, turnVars, runs>>

\* Variant: once run has failed, the calls still outstanding are cancelled and
\* never answer.
ParEnvCancels ==
  /\ ppc \in {"await_all", "await_agg", "done"}
  /\ \E k \in 1..Len(calls) :
       \/ \E t \in Texts : AgentResolve(k, t)
       \/ \E e \in Errors : AgentReject(k, e)
  /\ UNCHANGED <<chainVars, parVars, agentVars, turnVars, runs>>

\* The environment settles one of the group's outstanding agent calls.
ParEnv ==
  /\ ppc \in {"await_all", "await_agg", "done", "failed"}
  /\ \E k \in 1..Len(calls) :
       \/ \E t \in Texts : AgentResolve(k, t)
       \/ \E e \in Errors : AgentReject(k, e)
  /\ UNCHANGED <<chainVars, parVars, agentVars, turnVars, runs>>

\* -------------------------------------------------------------------- Agent
\* Two Agent base classes live in the repository: the one of agents/agent.ts,
\* whose history store is a mem0 client keyed by mem0UserId ("mem0"), and a
\* session-keyed one whose store is a ChatMemory ("session").
Variants   == {"mem0", "session"}
Undefined  == "<undefined>"
AgentNames == {"n1", "n2"}
UserIds    == {Undefined, "", "u1"}        \* options.mem0UserId
Stores     == {Undefined, "store"}         \* options.memoryClient / options.memory
SessionIds == {"s1"}
ToolNames  == {"tool1", "tool2"}
LookupNames == ToolNames \cup {"nonexistent"}
\* Caller metadata: a topic, and possibly a user_id key of its own (role and
\* toolCall are the keys GeminiAgent.saveMessage adds).
Metas      == {[user_id |-> Undefined, topic |-> Undefined, role |-> Undefined,
                toolCall |-> Undefined],
               [user_id |-> Undefined, topic |-> "test", role |-> Undefined,
                toolCall |-> Undefined],
               [user_id |-> "u2", topic |-> "test", role |-> Undefined,
                toolCall |-> Undefined]}
DefaultLimit == 10

\* JavaScript truthiness of an optional string or object reference.
Falsy(v) == v \in {Undefined, ""}

\* options.saveChat ?? false
SaveChatOf(opt) == IF opt = Undefined THEN FALSE ELSE opt = "true"

\* options.tools ?? [], a tool object being its name and its identity.
ToolsOf(opt) ==
  IF opt = <<>> THEN <<>>
  ELSE [k \in 1..Len(opt[1]) |-> [name |-> opt[1][k], id |-> k]]

\* The fields the constructor assigns from its options.
FieldsOf(o) ==
  [variant |-> o.variant, name |-> o.name, saveChat |-> SaveChatOf(o.saveChat),
   memoryClient |-> o.memoryClient, mem0UserId |-> o.mem0UserId,
   tools |-> ToolsOf(o.tools)]

NoAgentError == [kind |-> "none", agent |-> ""]

\* Variant: the identifier check is forgotten.
ConstructorErrorStoreOnly(f) ==
  IF f.saveChat /\ Falsy(f.memoryClient)
    THEN [kind |-> "requires memoryClient", agent |-> f.name]
    ELSE NoAgentError

\* The validation at the end of the constructor: the error thrown, if any.
ConstructorError(f) ==
  IF f.variant = "mem0"
    THEN IF f.saveChat /\ Falsy(f.mem0UserId)
           THEN [kind |-> "requires mem0UserId", agent |-> f.name]
         ELSE IF f.saveChat /\ Falsy(f.memoryClient)
           THEN [kind |-> "requires memoryClient", agent |-> f.name]
         ELSE NoAgentError
    ELSE IF f.saveChat /\ Falsy(f.memoryClient)
           THEN [kind |-> "no memory provided", agent |-> f.name]
         ELSE NoAgentError

AgentOptions ==
  [variant : Variants, name : AgentNames,
   saveChat : {Undefined, "true", "false"}, memoryClient : Stores,
   mem0UserId : UserIds,
   tools : {<<>>} \cup {<<l>> : l \in SeqsUpTo(ToolNames, MaxTools)}]

\* constructor(options)
AgentConstruct(o) ==
  /\ agentState = "none"
  /\ o.variant = "session" => o.mem0UserId = Undefined
  /\ options' = o
  /\ IF ConstructorError(FieldsOf(o)) # NoAgentError
       THEN /\ agentState' = "threw"
            /\ agentError' = ConstructorError(FieldsOf(o))
            /\ UNCHANGED this
       ELSE /\ agentState' = "constructed"
            /\ this' = FieldsOf(o)
            /\ UNCHANGED agentError
  /\ UNCHANGED <<hpc, helper, storeCalls, hresult, herror, logs, found,
                 chainVars, parVars, calls, settled, turnVars, runs>>

\* A call of a history helper: its name and arguments (text: the messages,
\* the query or the memory id; key: the session id; limit: <<>> when not given).
HelperCall(name, text, key, limit, meta) ==
  [name |-> name, text |-> text, key |-> key, limit |-> limit, meta |-> meta]

NoMeta == [user_id |-> Undefined, topic |-> Undefined, role |-> Undefined,
           toolCall |-> Undefined]

\* A call to the history store, just made.
StoreCall(method, key, limit, text, meta) ==
  [method |-> method, key |-> key, limit |-> limit, text |-> text,
   meta |-> meta, status |-> "pending", value |-> <<>>, isNull |-> FALSE,
   fault |-> NoError]

\* limit ?? 10
LimitOf(limit) == IF limit = <<>> THEN DefaultLimit ELSE limit[1]

\* { user_id: this.mem0UserId, ...metadata }: the key the write goes under.
SpreadUserId(a, meta) ==
  IF meta.user_id # Undefined THEN meta.user_id ELSE a.mem0UserId

\* Variant: reading the history is gated on saveChat as writing is.
StoreRequestGated(a, h) ==
  IF a.variant = "mem0" THEN
    IF h.name = "saveChatHistory" THEN
      IF ~a.saveChat \/ Falsy(a.memoryClient) \/ Falsy(a.mem0UserId) THEN <<>>
      ELSE <<StoreCall("add", SpreadUserId(a, h.meta), 0, h.text, h.meta)>>
    ELSE IF h.name = "fetchChatHistory" THEN
      IF ~a.saveChat \/ Falsy(a.memoryClient) \/ Falsy(a.mem0UserId) THEN <<>>
      ELSE <<StoreCall("search", a.mem0UserId, LimitOf(h.limit), h.text, NoMeta)>>
    ELSE IF h.name = "getChatMemories" THEN
      IF Falsy(a.memoryClient) \/ Falsy(a.mem0UserId) THEN <<>>
      ELSE <<StoreCall("getAll", a.mem0UserId, LimitOf(h.limit), <<>>, NoMeta)>>
    ELSE \* deleteMemory
      IF Falsy(a.memoryClient) THEN <<>>
      ELSE <<StoreCall("delete", Undefined, 0, h.text, NoMeta)>>
  ELSE
    IF h.name = "saveChatHistory" THEN
      IF a.saveChat /\ ~Falsy(a.memoryClient)
        THEN <<StoreCall("saveMessage", h.key, 0, h.text, NoMeta)>>
        ELSE <<>>
    ELSE \* fetchChatHistory
      IF ~a.saveChat \/ Falsy(a.memoryClient) THEN <<>>
      ELSE <<StoreCall("getMessages", h.key, 0, <<>>, NoMeta)>>

\* The store call helper h of agent a makes: <<>> when its guard returns early.
StoreRequest(a, h) ==
  IF a.variant = "mem0" THEN
    IF h.name = "saveChatHistory" THEN
      IF ~a.saveChat \/ Falsy(a.memoryClient) \/ Falsy(a.mem0UserId) THEN <<>>
      ELSE <<StoreCall("add", SpreadUserId(a, h.meta), 0, h.text, h.meta)>>
    ELSE IF h.name = "fetchChatHistory" THEN
      IF Falsy(a.memoryClient) \/ Falsy(a.mem0UserId) THEN <<>>
      ELSE <<StoreCall("search", a.mem0UserId, LimitOf(h.limit), h.text, NoMeta)>>
    ELSE IF h.name = "getChatMemories" THEN
      IF Falsy(a.memoryClient) \/ Falsy(a.mem0UserId) THEN <<>>
      ELSE <<StoreCall("getAll", a.mem0UserId, LimitOf(h.limit), <<>>, NoMeta)>>
    ELSE \* deleteMemory
      IF Falsy(a.memoryClient) THEN <<>>
      ELSE <<StoreCall("delete", Undefined, 0, h.text, NoMeta)>>
  ELSE
    IF h.name = "saveChatHistory" THEN
      IF a.saveChat /\ ~Falsy(a.memoryClient)
        THEN <<StoreCall("saveMessage", h.key, 0, h.text, NoMeta)>>
        ELSE <<>>
    ELSE \* fetchChatHistory
      IF Falsy(a.memoryClient) THEN <<>>
      ELSE <<StoreCall("getMessages", h.key, 0, <<>>, NoMeta)>>

\* Variant: no helper has a catch block.
CatchesNothing(variant, name) == FALSE

\* Does the helper wrap its store call in try / catch?
Catches(variant, name) == variant = "mem0"

\* The first argument of logger.error in the helper's catch block.
LogMessage(name) ==
  IF name = "saveChatHistory" THEN "Failed to save chat history:"
  ELSE IF name = "fetchChatHistory" THEN "Failed to fetch chat history:"
  ELSE IF name = "getChatMemories" THEN "Failed to get chat memories:"
  ELSE "Failed to delete memory:"

\* What the helper returns for the store's answer c: `result || []` for a
\* read, nothing for a write.
HelperValue(name, c) ==
  IF name \in {"fetchChatHistory", "getChatMemories"} /\ ~c.isNull
    THEN c.value ELSE <<>>

\* The helper calls the agent offers.
HelperCalls(variant) ==
  IF variant = "mem0" THEN
    {HelperCall("saveChatHistory", t, Undefined, <<>>, m) : t \in Texts, m \in Metas}
    \cup {HelperCall("fetchChatHistory", t, Undefined, l, NoMeta) :
            t \in Texts, l \in {<<>>, <<5>>}}
    \cup {HelperCall("getChatMemories", <<>>, Undefined, l, NoMeta) :
            l \in {<<>>, <<5>>}}
    \cup {HelperCall("deleteMemory", t, Undefined, <<>>, NoMeta) : t \in Texts}
  ELSE
    {HelperCall("saveChatHistory", t, k, <<>>, NoMeta) : t \in Texts, k \in SessionIds}
    \cup {HelperCall("fetchChatHistory", <<>>, k, <<>>, NoMeta) : k \in SessionIds}

\* saveChatHistory / fetchChatHistory / getChatMemories / deleteMemory, up to
\* the await of the store call (or the early return).
HelperInvoke(h) ==
  /\ agentState = "constructed" /\ hpc = "idle"
  /\ h \in HelperCalls(this.variant)
  /\ helper' = h
  /\ IF StoreRequest(this, h) = <<>>
       THEN /\ hpc' = "returned"
            /\ UNCHANGED storeCalls
       ELSE /\ storeCalls' = Append(storeCalls, StoreRequest(this, h)[1])
            /\ hpc' = "await"
  /\ UNCHANGED <<options, agentState, this, agentError, hresult, herror, logs,
                 found, chainVars, parVars, calls, settled, turnVars, runs>>

\* The store answers the outstanding call: a value (possibly null for a read)
\* or a fault.
StoreEnv ==
  /\ storeCalls # <<>>
  /\ LET k == Len(storeCalls)
         reads == storeCalls[k].method \in {"search", "getAll", "getMessages"}
     IN /\ storeCalls[k].status = "pending"
        /\ \/ \E v \in (IF reads THEN SeqsUpTo(Texts, 1) ELSE {<<>>}) :
                storeCalls' = [storeCalls EXCEPT ![k].status = "ok", ![k].value = v]
           \/ /\ storeCalls[k].method \in {"search", "getAll"}
              /\ storeCalls' = [storeCalls EXCEPT ![k].status = "ok",
                                                  ![k].isNull = TRUE]
           \/ \E e \in Errors :
                storeCalls' = [storeCalls EXCEPT ![k].status = "fault", ![k].fault = e]
  /\ UNCHANGED <<options, agentState, this, agentError, hpc, helper, hresult,
                 herror, logs, found, chainVars, parVars, calls, settled, turnVars, runs>>

\* The store call settled: the helper returns, or its catch block logs and it
\* returns the default, or the fault leaves it.
HelperResume ==
  /\ hpc = "await"
  /\ LET c == storeCalls[Len(storeCalls)] IN
     \/ /\ c.status = "ok"
        /\ hpc' = "returned"
        /\ hresult' = HelperValue(helper.name, c)
        /\ UNCHANGED <<herror, logs>>
     \/ /\ c.status = "fault"
        /\ IF Catches(this.variant, helper.name)
             THEN /\ logs' = Append(logs, [message |-> LogMessage(helper.name),
                                           fault |-> c.fault])
                  /\ hpc' = "returned"
                  /\ hresult' = <<>>
                  /\ UNCHANGED herror
             ELSE /\ hpc' = "threw"
                  /\ herror' = c.fault
                  /\ UNCHANGED <<hresult, logs>>
  /\ UNCHANGED <<options, agentState, this, agentError, helper, storeCalls,
                 found, chainVars, parVars, calls, settled, turnVars, runs>>

\* Variant: the last tool of that name is returned.
RECURSIVE FindLast(_, _)
FindLast(tools, name) ==
  IF tools = <<>> THEN <<>>
  ELSE IF tools[Len(tools)].name = name THEN <<tools[Len(tools)]>>
  ELSE FindLast(SubSeq(tools, 1, Len(tools) - 1), name)

\* this.tools.find((tool) => tool.name === name): <<>> stands for undefined.
RECURSIVE Find(_, _)
Find(tools, name) ==
  IF tools = <<>> THEN <<>>
  ELSE IF Head(tools).name = name THEN <<Head(tools)>>
  ELSE Find(Tail(tools), name)

\* getToolByName(name)
GetToolByName(name) ==
  /\ agentState = "constructed" /\ hpc = "idle"
  /\ helper' = HelperCall("getToolByName", <<name>>, Undefined, <<>>, NoMeta)
  /\ found' = Find(this.tools, name)
  /\ hpc' = "returned"
  /\ UNCHANGED <<options, agentState, this, agentError, storeCalls, hresult,
                 herror, logs, chainVars, parVars, calls, settled, turnVars, runs>>

NoOptions ==
  [variant |-> "mem0", name |-> "", saveChat |-> Undefined,
   memoryClient |-> Undefined, mem0UserId |-> Undefined, tools |-> <<>>]

AgentInit ==
  /\ options = NoOptions /\ agentState = "none" /\ this = FieldsOf(NoOptions)
  /\ agentError = NoAgentError /\ hpc = "idle"
  /\ helper = HelperCall("none", <<>>, Undefined, <<>>, NoMeta)
  /\ storeCalls = <<>> /\ hresult = <<>> /\ herror = NoError /\ logs = <<>>
  /\ found = <<>>

AgentNext ==
  \/ \E o \in AgentOptions : AgentConstruct(o)
  \/ \E h \in UNION {HelperCalls(v) : v \in Variants} : HelperInvoke(h)
  \/ StoreEnv
  \/ HelperResume
  \/ \E name \in LookupNames : GetToolByName(name)

\* -------------------------------------------------------------- GeminiAgent
\* A turn (process or processStream) of a GeminiAgent, which extends the Agent
\* of agents/agent.ts.  The provider (models.generateContent and
\* generateContentStream) and the tools' raw handlers are opaque.  The consumer
\* of processStream is taken to ask for the next chunk as soon as one is
\* yielded.  Of the metadata saveMessage passes, role and toolCall are kept.
ModelTexts == {<<"m">>}                     \* response.text, when present
ToolNoRawNames == {"tool2"}                 \* tools defined without a raw handler
TurnToolLists == {<<>>, <<"tool1">>, <<"tool2", "tool1">>}
\* response.functionCalls: <<>> is undefined, <<l>> the list l.
FunctionCallOptions ==
  {<<>>, << <<>> >>} \cup {<< <<n>> >> : n \in LookupNames}
  \cup {<< <<"tool1", "tool2">> >>, << <<"tool2", "tool1">> >>,
        << <<"nonexistent", "tool1">> >>}
\* chunk.text: <<>> is undefined, <<t>> the text t; " " is white space.
ChunkOptions == {<<>>, << <<"x">> >>, << <<" ", "y">> >>, << <<" ">> >>}
\* What a raw handler returns: a string, or an object to be serialised.
ToolResults == {[type |-> "string", v |-> <<"r">>], [type |-> "object", v |-> <<"r">>]}
NoToolResult == [type |-> "none", v |-> <<>>]
HistoryLimit == 10

TurnOptions ==
  [variant : {"mem0"}, name : {"n1"}, saveChat : {"true", "false"},
   memoryClient : Stores, mem0UserId : {Undefined, "u1"},
   tools : {<<l>> : l \in TurnToolLists}]

\* The errors a turn can end with.
NoTurnError      == [kind |-> "none", name |-> Undefined, cause |-> NoError]
ProviderError(e) == [kind |-> "provider", name |-> Undefined, cause |-> e]
StoreError(e)    == [kind |-> "store", name |-> Undefined, cause |-> e]
ToolNotFound(n)  == [kind |-> "Tool not found", name |-> n, cause |-> NoError]
ToolNoRaw(n)     == [kind |-> "Tool has no executable raw", name |-> n, cause |-> NoError]
\* Variant: a handler's failure is reported as the tool being absent.
ToolFailedAsNotFound(n, e) == [kind |-> "Tool not found", name |-> n, cause |-> NoError]
ToolFailed(n, e) == [kind |-> "Tool execution failed", name |-> n, cause |-> e]

\* typeof tool.raw === 'function'
HasRaw(tool) == tool.name \notin ToolNoRawNames

\* typeof result === 'string' ? result : JSON.stringify(result)
ToolText(res) ==
  IF res.type = "string" THEN res.v ELSE <<"{">> \o res.v \o <<"}">>

\* response.text ?? ''
TextOr(opt) == IF opt = <<>> THEN <<>> ELSE opt[1]

\* Variant: the last requested call is taken.
LastFunctionCall(fc) ==
  IF fc = <<>> \/ fc[1] = <<>> THEN <<>> ELSE <<fc[1][Len(fc[1])]>>

\* response.functionCalls?.[0]: <<>> is undefined, <<n>> the call of tool n.
FirstFunctionCall(fc) ==
  IF fc = <<>> \/ fc[1] = <<>> THEN <<>> ELSE <<fc[1][1]>>

\* String.prototype.trim on a sequence of tokens.
RECURSIVE TrimStart(_)
TrimStart(t) == IF t # <<>> /\ Head(t) = " " THEN TrimStart(Tail(t)) ELSE t
RECURSIVE TrimEnd(_)
TrimEnd(t) ==
  IF t # <<>> /\ t[Len(t)] = " " THEN TrimEnd(SubSeq(t, 1, Len(t) - 1)) ELSE t
Trim(t) == TrimEnd(TrimStart(t))

\* chunk.text?.trim(): <<>> for undefined and for the empty string, both falsy.
ChunkText(c) == IF c = <<>> THEN <<>> ELSE Trim(c[1])

\* The chunk yielded for an executed tool call.
ToolChunk(name, toolResult) == <<"\n\nFunction Call: ", name, "\n">> \o toolResult

\* formatHistory: the memories whose content is a string, in order.
FormatHistory(messages) == SelectSeq(messages, LAMBDA m : m \in Texts)

\* A call of models.generateContent / generateContentStream, just made.
ProviderCall(method, input, history, tools) ==
  [method |-> method, input |-> input, history |-> history,
   declared |-> [k \in 1..Len(tools) |-> tools[k].name],
   status |-> "pending", text |-> <<>>, functionCalls |-> <<>>, chunks |-> <<>>,
   fault |-> NoError]

\* The metadata saveMessage passes to saveChatHistory.
SaveMeta(role, toolCall) ==
  [user_id |-> Undefined, topic |-> Undefined, role |-> role, toolCall |-> toolCall]

\* The state a turn works on, as one record.
Cur ==
  [mode |-> tmode, tpc |-> tpc, input |-> tinput, memories |-> memories,
   providerCalls |-> providerCalls, toolRuns |-> toolRuns, content |-> content,
   tresult |-> tresult, terror |-> terror, tyielded |-> tyielded,
   storeCalls |-> storeCalls, logs |-> logs]

turnFrame == <<options, agentState, this, agentError, hpc, helper, hresult, herror,
               found, chainVars, parVars, calls, settled, runs>>

\* The turn has run to its next suspension (or its end) and stands at st.
Commit(st) ==
  /\ tmode' = st.mode /\ tpc' = st.tpc /\ tinput' = st.input
  /\ memories' = st.memories /\ providerCalls' = st.providerCalls
  /\ toolRuns' = st.toolRuns /\ content' = st.content /\ tresult' = st.tresult
  /\ terror' = st.terror /\ tyielded' = st.tyielded
  /\ storeCalls' = st.storeCalls /\ logs' = st.logs
  /\ UNCHANGED turnFrame

\* logger.error(message, fault)
Log(st, message, fault) ==
  [st EXCEPT !.logs = Append(@, [message |-> message, fault |-> fault])]

FailMessage(mode) ==
  IF mode = "process" THEN "Failed to process input:"
  ELSE "Failed to process streaming input:"

\* Variant: the catch block logs and returns the empty text.
FailSwallowed(st, err) ==
  [Log(st, FailMessage(st.mode), err) EXCEPT !.tpc = "done", !.tresult = <<>>]

\* catch (error) { this.logger.error(..., error); throw error; }
Fail(st, err) ==
  [Log(st, FailMessage(st.mode), err) EXCEPT !.tpc = "failed", !.terror = err]

\* The tool the last generateContent response asks for first, if any.
RequestedTool(st) ==
  LET r == st.providerCalls[Len(st.providerCalls)] IN
  IF r.method = "generateContent" /\ r.status = "ok"
    THEN FirstFunctionCall(r.functionCalls) ELSE <<>>

\* The text saved as the assistant's message: content in process, and in
\* processStream the tool result when a tool was executed.
AssistantText(st) ==
  IF st.mode = "processStream" /\ st.toolRuns # <<>>
    THEN ToolText(st.toolRuns[1].result) ELSE st.content

\* Variant: both saved messages carry the input.
SavedTextInput(role, input, text) == input

\* The content of the message saved for a role.
SavedText(role, input, text) == IF role = "user" THEN input ELSE text

\* saveMessage(role, text, extraMetadata): the store call it makes, if any.
SaveRequest(role, text, toolCall) ==
  IF ~this.saveChat THEN <<>>
  ELSE StoreRequest(this, HelperCall("saveChatHistory", text, Undefined, <<>>,
                                     SaveMeta(role, toolCall)))

\* return content (process), or the end of the generator (processStream)
Finish(st) ==
  [st EXCEPT !.tpc = "done",
             !.tresult = IF st.mode = "process" THEN st.content ELSE <<>>]

\* await this.saveMessage('assistant', ...) and, with nothing to await, on.
SaveAssistant(st) ==
  LET tc  == RequestedTool(st)
      req == SaveRequest("assistant",
                         SavedText("assistant", st.input, AssistantText(st)),
                         IF tc = <<>> THEN Undefined ELSE tc[1])
  IN IF req = <<>> THEN Finish(st)
     ELSE [st EXCEPT !.storeCalls = Append(@, req[1]), !.tpc = "save_assistant"]

\* await this.saveMessage('user', input) and, with nothing to await, on.
SaveUser(st) ==
  LET req == SaveRequest("user", SavedText("user", st.input, AssistantText(st)),
                         Undefined)
  IN IF req = <<>> THEN SaveAssistant(st)
     ELSE [st EXCEPT !.storeCalls = Append(@, req[1]), !.tpc = "save_user"]

\* executeToolCall(name, args), to its throw or to the await of tool.raw(args).
ExecuteToolCall(st, name) ==
  LET tool == Find(this.tools, name) IN
  IF tool = <<>> THEN Fail(st, ToolNotFound(name))
  ELSE IF ~HasRaw(tool[1]) THEN Fail(st, ToolNoRaw(name))
  ELSE [st EXCEPT !.toolRuns = Append(@, [name |-> name, id |-> tool[1].id,
                                          status |-> "pending",
                                          result |-> NoToolResult,
                                          fault |-> NoError]),
                  !.tpc = "tool"]

\* await this.models.generateContent(...) / generateContentStream(...)
Generate(st, method) ==
  [st EXCEPT !.providerCalls =
               Append(@, ProviderCall(method, st.input, FormatHistory(st.memories),
                                      this.tools)),
             !.tpc = IF method = "generateContentStream" THEN "stream"
                     ELSE IF st.mode = "process" THEN "generate" ELSE "final"]

\* Variant: the user message is written before the provider is asked.
AfterFetchSavesUser(st, mem) ==
  LET req == SaveRequest("user", st.input, Undefined)
      st1 == IF req = <<>> THEN st
             ELSE [st EXCEPT !.storeCalls = Append(@, [req[1] EXCEPT !.status = "ok"])]
  IN Generate([st1 EXCEPT !.memories = mem],
              IF st.mode = "process" THEN "generateContent"
              ELSE "generateContentStream")

\* The turn after fetchChatHistory returned mem.
AfterFetch(st, mem) ==
  Generate([st EXCEPT !.memories = mem],
           IF st.mode = "process" THEN "generateContent"
           ELSE "generateContentStream")

\* The turn from its first statement: fetchChatHistory(input, 10).
Start(mode, x) ==
  LET st  == [Cur EXCEPT !.mode = mode, !.input = x]
      req == StoreRequest(this, HelperCall("fetchChatHistory", x, Undefined,
                                           <<HistoryLimit>>, NoMeta))
  IN IF req = <<>> THEN AfterFetch(st, <<>>)
     ELSE [st EXCEPT !.storeCalls = Append(@, req[1]), !.tpc = "fetch"]

\* process(input)
Process(x) ==
  /\ agentState = "constructed" /\ this.variant = "mem0"
  /\ tmode = "none" /\ hpc = "idle"
  /\ Commit(Start("process", x))

\* processStream(input), its generator asked for the first chunk
ProcessStream(x) ==
  /\ agentState = "constructed" /\ this.variant = "mem0"
  /\ tmode = "none" /\ hpc = "idle"
  /\ Commit(Start("processStream", x))

\* The store call a helper awaited has settled: the helper returns (after its
\* catch block, on a fault) and the turn goes on.
TurnStoreResume ==
  /\ tpc \in {"fetch", "save_user", "save_assistant"}
  /\ LET c    == storeCalls[Len(storeCalls)]
         name == IF tpc = "fetch" THEN "fetchChatHistory" ELSE "saveChatHistory"
         st   == IF c.status = "fault"
                   THEN Log(Cur, LogMessage(name), StoreError(c.fault)) ELSE Cur
     IN /\ c.status # "pending"
        /\ IF c.status = "fault" /\ ~Catches(this.variant, name)
             THEN Commit(Fail(Cur, StoreError(c.fault)))
           ELSE IF tpc = "fetch"
             THEN Commit(AfterFetch(st, IF c.status = "fault" THEN <<>>
                                        ELSE HelperValue(name, c)))
           ELSE IF tpc = "save_user" THEN Commit(SaveAssistant(st))
           ELSE Commit(Finish(st))

\* The provider answers generateContent: a response or a failure.
ProviderEnv ==
  /\ tpc \in {"generate", "final"}
  /\ LET k == Len(providerCalls) IN
     /\ providerCalls[k].status = "pending"
     /\ \/ \E t \in {<<>>} \cup {<<m>> : m \in ModelTexts},
              fc \in FunctionCallOptions :
             providerCalls' = [providerCalls EXCEPT ![k].status = "ok",
                                 ![k].text = t, ![k].functionCalls = fc]
        \/ \E e \in Errors :
             providerCalls' = [providerCalls EXCEPT ![k].status = "fault",
                                                    ![k].fault = e]
  /\ UNCHANGED <<tmode, tpc, tinput, memories, toolRuns, content, tresult, terror,
                 tyielded, storeCalls, logs, turnFrame>>

\* generateContent has settled: process lines 129-139, processStream 186-196.
ProviderResume ==
  /\ tpc \in {"generate", "final"}
  /\ LET r  == providerCalls[Len(providerCalls)]
         st == IF tpc = "generate" THEN [Cur EXCEPT !.content = TextOr(r.text)]
               ELSE Cur
         tc == FirstFunctionCall(r.functionCalls)
     IN /\ r.status # "pending"
        /\ IF r.status = "fault" THEN Commit(Fail(Cur, ProviderError(r.fault)))
           ELSE IF tc # <<>> THEN Commit(ExecuteToolCall(st, tc[1]))
           ELSE Commit(SaveUser(st))

\* The provider stream delivers a chunk and the loop body handles it.
StreamChunk(c) ==
  /\ tpc = "stream"
  /\ Len(providerCalls[Len(providerCalls)].chunks) < MaxChunks
  /\ LET st == [Cur EXCEPT !.providerCalls[Len(providerCalls)].chunks = Append(@, c)]
     IN IF ChunkText(c) # <<>>
          THEN Commit([st EXCEPT !.content = @ \o ChunkText(c),
                                 !.tyielded = Append(@, ChunkText(c))])
          ELSE Commit(st)

\* The provider stream ends: processStream lines 179-199.
StreamEnd ==
  /\ tpc = "stream"
  /\ LET st == [Cur EXCEPT !.providerCalls[Len(providerCalls)].status = "ok"]
     IN IF Len(this.tools) > 0 THEN Commit(Generate(st, "generateContent"))
        ELSE Commit(SaveUser(st))

\* generateContentStream, or the iteration of its stream, fails.
StreamFault(e) ==
  /\ tpc = "stream"
  /\ Commit(Fail([Cur EXCEPT !.providerCalls[Len(providerCalls)].status = "fault",
                             !.providerCalls[Len(providerCalls)].fault = e],
                 ProviderError(e)))

\* The raw handler answers: a result or a failure.
ToolEnv ==
  /\ tpc = "tool"
  /\ LET k == Len(toolRuns) IN
     /\ toolRuns[k].status = "pending"
     /\ \/ \E res \in ToolResults :
             toolRuns' = [toolRuns EXCEPT ![k].status = "ok", ![k].result = res]
        \/ \E e \in Errors :
             toolRuns' = [toolRuns EXCEPT ![k].status = "fault", ![k].fault = e]
  /\ UNCHANGED <<tmode, tpc, tinput, memories, providerCalls, content, tresult,
                 terror, tyielded, storeCalls, logs, turnFrame>>

\* tool.raw has settled: executeToolCall lines 87-90, then the turn.
ToolResume ==
  /\ tpc = "tool"
  /\ LET t == toolRuns[Len(toolRuns)] IN
     /\ t.status # "pending"
     /\ IF t.status = "fault"
          THEN Commit(Fail(Log(Cur, "Tool execution failed for",
                               ToolFailed(t.name, t.fault)),
                           ToolFailed(t.name, t.fault)))
        ELSE IF tmode = "process"
          THEN Commit(SaveUser([Cur EXCEPT !.content = ToolText(t.result)]))
        ELSE Commit(SaveUser([Cur EXCEPT !.tyielded =
                                Append(@, ToolChunk(t.name, ToolText(t.result)))]))

TurnInit ==
  /\ tmode = "none" /\ tpc = "idle" /\ tinput = <<>> /\ memories = <<>>
  /\ providerCalls = <<>> /\ toolRuns = <<>> /\ content = <<>> /\ tresult = <<>>
  /\ terror = NoTurnError /\ tyielded = <<>>

TurnNext ==
  \/ \E o \in TurnOptions : AgentConstruct(o)
  \/ \E x \in Texts : Process(x)
  \/ \E x \in Texts : ProcessStream(x)
  \/ StoreEnv
  \/ TurnStoreResume
  \/ ProviderEnv
  \/ ProviderResume
  \/ \E c \in ChunkOptions : StreamChunk(c)
  \/ StreamEnd
  \/ \E e \in Errors : StreamFault(e)
  \/ ToolEnv
  \/ ToolResume

\* ------------------------------------------------------- overlapping runs
\* Two calls of run on the same pattern object, each with its own locals; the
\* agents are stateless here, an agent's answer being a function of its input.
RunIds == {1, 2}
OverlapLists == {<<"a">>, <<"a", "b">>}     \* the agent lists of the pattern
\* The prompts of a call of ParallelizationPattern.run: one text per worker.
OverlapPrompts == {<<>>} \cup {[k \in 1..n |-> x] : n \in 1..2, x \in Texts}

\* The text agent answers to input.
Answer(agent, input) == input \o <<agent>>

NoRun ==
  [pattern |-> "none", pc |-> "idle", input |-> <<>>, currentInput |-> <<>>,
   i |-> 0, tasks |-> <<>>, mine |-> <<>>, results |-> <<>>, result |-> <<>>,
   error |-> NoError]

\* Variant: the promises awaited are kept in a field of the pattern, which the
\* call started last has overwritten.
AwaitedShared(rs, r) ==
  LET last == CHOOSE q \in RunIds :
                \A p \in RunIds : Len(rs[p].tasks) > 0 =>
                  /\ Len(rs[q].tasks) > 0
                  /\ rs[p].tasks[1] <= rs[q].tasks[1]
  IN rs[last].tasks

\* The promises call r of run is suspended on: its own locals.
Awaited(rs, r) == rs[r].tasks

\* The body of PromptChainPattern.run from the top of its loop, for the call
\* whose locals are rec: the locals at its next await (or its return) and the
\* agent call it makes.
RunCallAdvance(rec, cur, done) ==
  IF done < ProcessStages("run", Len(chainAgents))
    THEN [rec |-> [rec EXCEPT !.currentInput = cur, !.i = done + 1,
                              !.pc = "await", !.tasks = <<Len(calls) + 1>>,
                              !.mine = Append(@, Len(calls) + 1)],
          new |-> <<NewCall("stage", done + 1, chainAgents[done + 1], "process",
                            StageInput(cur, rec.input))>>]
    ELSE [rec |-> [rec EXCEPT !.currentInput = cur, !.pc = "done", !.result = cur],
          new |-> <<>>]

\* PromptChainPattern.run(x), as call r
RunCall(r, x) ==
  /\ chainState = "constructed" /\ runs[r].pc = "idle"
  /\ LET step == RunCallAdvance([NoRun EXCEPT !.pattern = "chain", !.input = x], x, 0)
     IN /\ runs' = [runs EXCEPT ![r] = step.rec]
        /\ calls' = calls \o step.new
  /\ UNCHANGED <<chainVars, parVars, settled, agentVars, turnVars>>

\* The stage call r awaits has settled.
RunCallResume(r) ==
  /\ runs[r].pattern = "chain" /\ runs[r].pc = "await"
  /\ LET c == calls[Awaited(runs, r)[1]] IN
     \/ /\ c.status = "resolved"
        /\ LET step == RunCallAdvance(runs[r], c.output, runs[r].i)
           IN /\ runs' = [runs EXCEPT ![r] = step.rec]
              /\ calls' = calls \o step.new
     \/ /\ c.status = "rejected"
        /\ runs' = [runs EXCEPT ![r].pc = "failed", ![r].error = c.error]
        /\ UNCHANGED calls
  /\ UNCHANGED <<chainVars, parVars, settled, agentVars, turnVars>>

\* ParallelizationPattern.run(ps), as call r
ParRunCall(r, ps) ==
  /\ parState = "constructed" /\ runs[r].pc = "idle"
  /\ IF ~PromptsMatch(ps, parAgents)
       THEN /\ runs' = [runs EXCEPT ![r] = [NoRun EXCEPT !.pattern = "group",
                                              !.input = ps, !.pc = "failed",
                                              !.error = MismatchError]]
            /\ UNCHANGED calls
       ELSE /\ calls' = calls \o MapProcess(parAgents, ps)
            /\ runs' = [runs EXCEPT ![r] =
                 [NoRun EXCEPT !.pattern = "group", !.input = ps,
                               !.pc = "await_all",
                               !.tasks = [k \in 1..Len(parAgents) |-> Len(calls) + k],
                               !.mine = [k \in 1..Len(parAgents) |-> Len(calls) + k]]]
  /\ UNCHANGED <<chainVars, parVars, settled, agentVars, turnVars>>

\* Promise.all of call r settled.
ParRunCallResume(r) ==
  /\ runs[r].pattern = "group" /\ runs[r].pc = "await_all"
  /\ LET all == PromiseAll(Awaited(runs, r)) IN
     \/ /\ all.status = "rejected"
        /\ runs' = [runs EXCEPT ![r].pc = "failed", ![r].error = all.reason]
        /\ UNCHANGED calls
     \/ /\ all.status = "fulfilled"
        /\ calls' = Append(calls, NewCall("aggregator", 0, aggregator, "process",
                                          BuildAggregationPrompt(all.values)))
        /\ runs' = [runs EXCEPT ![r].pc = "await_agg", ![r].results = all.values,
                                ![r].tasks = <<Len(calls) + 1>>,
                                ![r].mine = Append(@, Len(calls) + 1)]
  /\ UNCHANGED <<chainVars, parVars, settled, agentVars, turnVars>>

\* The aggregator call of call r settled.
ParRunCallFinish(r) ==
  /\ runs[r].pattern = "group" /\ runs[r].pc = "await_agg"
  /\ LET c == calls[Awaited(runs, r)[1]] IN
     \/ /\ c.status = "resolved"
        /\ runs' = [runs EXCEPT ![r].pc = "done", ![r].result = c.output]
     \/ /\ c.status = "rejected"
        /\ runs' = [runs EXCEPT ![r].pc = "failed", ![r].error = c.error]
  /\ UNCHANGED <<calls, chainVars, parVars, settled, agentVars, turnVars>>

\* An outstanding agent call answers, or fails.
CallEnv ==
  /\ \E k \in 1..Len(calls) :
       \/ AgentResolve(k, Answer(calls[k].agent, calls[k].input))
       \/ \E e \in Errors : AgentReject(k, e)
  /\ UNCHANGED <<chainVars, parVars, agentVars, turnVars, runs>>

OverlapInit == runs = [r \in RunIds |-> NoRun]

OverlapNext ==
  \/ /\ parState = "none"
     /\ \E agents \in OverlapLists : ChainConstruct(agents)
  \/ /\ chainState = "none"
     /\ \E agents \in OverlapLists, agg \in AgentIds : ParConstruct(agents, agg)
  \/ \E r \in RunIds, x \in Texts : RunCall(r, x)
  \/ \E r \in RunIds : RunCallResume(r)
  \/ \E r \in RunIds, ps \in OverlapPrompts : ParRunCall(r, ps)
  \/ \E r \in RunIds : ParRunCallResume(r)
  \/ \E r \in RunIds : ParRunCallFinish(r)
  \/ CallEnv

ChainInit ==
  /\ chainArg = <<>> /\ chainState = "none" /\ chainAgents = <<>>
  /\ op = "none" /\ pc = "idle"
  /\ promptInput = <<>> /\ currentInput = <<>> /\ i = 0
  /\ result = <<>> /\ error = NoError /\ yielded = <<>>

ParInit ==
  /\ parArg = [agents |-> <<>>, aggregator |-> NoAgent]
  /\ parState = "none" /\ parAgents = <<>> /\ aggregator = NoAgent
  /\ prompts = <<>> /\ ppc = "idle" /\ taskPromises = <<>> /\ results = <<>>
  /\ aggregatedPrompt = <<>> /\ presult = <<>> /\ perror = NoError

Init ==
  /\ ChainInit /\ ParInit /\ AgentInit /\ TurnInit /\ OverlapInit
  /\ calls = <<>> /\ settled = <<>>

ChainNext ==
  \/ \E agents \in SeqsUpTo(AgentIds, MaxAgents) : ChainConstruct(agents)
  \/ \E x \in Texts : Run(x)
  \/ \E x \in Texts : RunStream(x)
  \/ ConsumerNext
  \/ ChainResume
  \/ StreamResume
  \/ ChainEnv

SpecChain == Init /\ [][ChainNext]_vars

ParNext ==
  \/ \E agents \in SeqsUpTo(AgentIds, MaxWorkers), agg \in AgentIds :
       ParConstruct(agents, agg)
  \/ \E ps \in SeqsUpTo(Texts, MaxWorkers + 1) : ParRun(ps)
  \/ ParResume
  \/ ParFinish
  \/ ParEnv

SpecPar == Init /\ [][ParNext]_vars

\* One pattern object is exercised per behaviour: the chain or the group.
LiveNext ==
  \/ /\ parState = "none"
     /\ \E agents \in SeqsUpTo(AgentIds, MaxAgents) : ChainConstruct(agents)
  \/ /\ chainState = "none"
     /\ \E agents \in SeqsUpTo(AgentIds, MaxWorkers), agg \in AgentIds :
          ParConstruct(agents, agg)
  \/ \E x \in Texts : Run(x)
  \/ \E x \in Texts : RunStream(x)
  \/ ConsumerNext
  \/ ChainResume
  \/ StreamResume
  \/ ChainEnv
  \/ \E ps \in SeqsUpTo(Texts, MaxWorkers + 1) : ParRun(ps)
  \/ ParResume
  \/ ParFinish
  \/ ParEnv

\* The event loop runs every continuation that is ready; every agent call
\* made is eventually answered; the consumer of runStream keeps asking for
\* the next chunk.
Fairness ==
  /\ WF_vars(ChainResume) /\ WF_vars(StreamResume) /\ WF_vars(ConsumerNext)
  /\ WF_vars(ChainEnv)
  /\ WF_vars(ParResume) /\ WF_vars(ParFinish)
  /\ WF_vars(ParEnv)

SpecAgent == Init /\ [][AgentNext]_vars

SpecTurn == Init /\ [][TurnNext]_vars

SpecOverlap == Init /\ [][OverlapNext]_vars

SpecLive == Init /\ [][LiveNext]_vars /\ Fairness

\* ------------------------------------------------------------------ claims
\* Stage j received the output of stage j - 1, the first the initial input.
Linked(j) == calls[j].input = IF j = 1 THEN promptInput ELSE calls[j - 1].output

\* Call j is a stage still outstanding: a promise not settled, or a generator
\* that has neither ended nor failed.
Outstanding(j) == calls[j].status \in {"pending", "chunk"}

\* C1: when no agent fails, run(X) returns the left fold of process over the
\* agent list starting from X: one process call per agent, in list order, each
\* fed the output of the one before (the first fed X), and the text returned
\* is the last agent's output.
C1_RunIsFold ==
  (op = "run" /\ pc = "done") =>
    /\ Len(calls) = Len(chainAgents)
    /\ \A j \in 1..Len(calls) :
         /\ calls[j].agent = chainAgents[j]
         /\ calls[j].method = "process"
         /\ calls[j].status = "resolved"
         /\ Linked(j)
    /\ result = calls[Len(calls)].output

\* A three-agent run that returned, whose texts changed at every stage.
C1_Witness ==
  /\ op = "run" /\ pc = "done" /\ Len(chainAgents) = 3
  /\ calls[1].output # promptInput
  /\ calls[2].output # calls[1].output
  /\ result = calls[3].output

\* C2: in run and runStream the stages are started in list order, each at most
\* once, a stage only after the one before it has resolved, so that at most
\* one stage is outstanding at any time.
C2_StrictlySequential ==
  /\ Len(calls) <= Len(chainAgents)
  /\ \A j \in 1..Len(calls) :
       /\ calls[j].pos = j
       /\ calls[j].agent = chainAgents[j]
       /\ j < Len(calls) => calls[j].status = "resolved"
  /\ Cardinality({j \in 1..Len(calls) : Outstanding(j)}) <= 1

\* runStream on three agents, the last one streaming, both earlier resolved.
C2_Witness ==
  /\ op = "runStream" /\ Len(calls) = 3
  /\ calls[3].status = "chunk" /\ calls[3].method = "processStream"

\* C3: if agent k's process fails during run, the run fails with that same
\* failure, k is the last agent ever invoked, no agent is invoked twice, and
\* no text is returned.
C3_RunFailFast ==
  \A k \in 1..Len(calls) :
    (op = "run" /\ calls[k].status = "rejected") =>
      /\ k = Len(calls)
      /\ \A j \in 1..Len(calls) : calls[j].pos = j
      /\ pc \in {"await", "failed"}
      /\ pc = "failed" => error = calls[k].error
      /\ result = <<>>

\* A run of three agents that failed at the second.
C3_Witness ==
  /\ op = "run" /\ pc = "failed" /\ Len(chainAgents) = 3
  /\ Len(calls) = 2 /\ calls[2].status = "rejected" /\ error = calls[2].error

\* C4: when nothing fails, the chunks runStream yields are exactly the chunks
\* of the last agent's processStream called on the fold of process over the
\* agents before it: the same chunks in the same order.
C4_StreamIsLastAgentStream ==
  (op = "runStream" /\ pc \in {"yield", "done"}) =>
    LET n == Len(chainAgents) IN
    /\ Len(calls) = n
    /\ \A j \in 1..n :
         /\ calls[j].agent = chainAgents[j]
         /\ calls[j].method = (IF j = n THEN "processStream" ELSE "process")
         /\ Linked(j)
    /\ yielded = calls[n].chunks

\* A two-agent stream that ended after two different chunks.
C4_Witness ==
  /\ op = "runStream" /\ pc = "done" /\ Len(chainAgents) = 2
  /\ calls[1].output # promptInput
  /\ Len(yielded) = 2 /\ yielded[1] # yielded[2]

\* C5: if a non-final agent's process fails during runStream, the stream
\* raises that failure, no chunk has been or is yielded, and the final agent's
\* processStream is never invoked.
C5_StreamFailsBeforeChunks ==
  \A k \in 1..Len(calls) :
    (op = "runStream" /\ calls[k].method = "process"
       /\ calls[k].status = "rejected") =>
      /\ yielded = <<>>
      /\ \A j \in 1..Len(calls) : calls[j].method # "processStream"
      /\ pc \in {"await", "failed"}
      /\ pc = "failed" => error = calls[k].error

\* A three-agent stream that failed at its second stage.
C5_Witness ==
  /\ op = "runStream" /\ pc = "failed" /\ Len(chainAgents) = 3
  /\ Len(calls) = 2 /\ calls[2].status = "rejected"

\* C6: if the final agent's processStream fails after yielding k chunks, the
\* consumer has received exactly those k chunks in order, the stream ends
\* with that failure and not normally, and no chunk follows the failure.
C6_StreamFailsAfterChunks ==
  \A k \in 1..Len(calls) :
    (op = "runStream" /\ calls[k].method = "processStream"
       /\ calls[k].status = "rejected") =>
      /\ yielded = calls[k].chunks
      /\ pc \in {"await_chunk", "failed"}
      /\ pc = "failed" => error = calls[k].error

\* A stream whose last agent failed after two chunks.
C6_Witness ==
  /\ op = "runStream" /\ pc = "failed" /\ Len(yielded) = 2
  /\ calls[Len(calls)].method = "processStream"
  /\ calls[Len(calls)].status = "rejected"

\* C7: constructing a chain with an empty agent list fails with an error, a
\* constructed chain holds the list it was given and that list is not empty,
\* and run / runStream only ever execute on a non-empty list.
C7_ChainNonEmpty ==
  /\ chainState # "none" =>
       (chainState = "threw" <=> Len(chainArg) = 0)
  /\ chainState = "threw" => error = ChainCtorError /\ op = "none"
  /\ chainState = "constructed" =>
       chainAgents = chainArg /\ Len(chainAgents) >= 1
  /\ op # "none" => Len(chainAgents) >= 1

\* The constructor was handed the empty list and threw.
C7_Witness == chainState = "threw" /\ chainArg = <<>>

\* C8: constructing a group with zero workers fails; every constructed group
\* has a non-empty worker list and an aggregator.
C8_GroupNonEmpty ==
  /\ parState # "none" =>
       (parState = "threw" <=> Len(parArg.agents) = 0)
  /\ parState = "threw" => perror = ParCtorError /\ ppc = "idle"
  /\ parState = "constructed" =>
       /\ parAgents = parArg.agents /\ Len(parAgents) >= 1
       /\ aggregator = parArg.aggregator /\ aggregator \in AgentIds

\* The constructor was handed no worker and threw.
C8_Witness == parState = "threw" /\ parArg.agents = <<>>

\* C9: run with a prompt list shorter or longer than the worker list fails,
\* and no worker and no aggregator is ever invoked.
C9_MismatchFailsBeforeWork ==
  (ppc # "idle" /\ Len(prompts) # Len(parAgents)) =>
    /\ ppc = "failed" /\ perror = MismatchError
    /\ calls = <<>>

\* One prompt for two workers.
C9_Witness ==
  /\ ppc = "failed" /\ Len(prompts) = 1 /\ Len(parAgents) = 2

\* C10: with matching counts every worker i is invoked exactly once, with
\* prompts[i], and all workers have been started by the time run waits for
\* the first result.
C10_FanOutByIndex ==
  (ppc # "idle" /\ Len(prompts) = Len(parAgents)) =>
    LET n == Len(parAgents)
        workerCalls == {k \in 1..Len(calls) : calls[k].role = "worker"}
    IN /\ Cardinality(workerCalls) = n
       /\ \A j \in 1..n :
            /\ taskPromises[j] \in workerCalls
            /\ calls[taskPromises[j]].pos = j
            /\ calls[taskPromises[j]].agent = parAgents[j]
            /\ calls[taskPromises[j]].method = "process"
            /\ calls[taskPromises[j]].input = prompts[j]
       /\ \A j, k \in 1..n : taskPromises[j] = taskPromises[k] => j = k

\* Two workers with different prompts, both outstanding while run waits.
C10_Witness ==
  /\ ppc = "await_all" /\ Len(parAgents) = 2 /\ prompts[1] # prompts[2]
  /\ \A j \in 1..2 : calls[taskPromises[j]].status = "pending"

\* The calls made to the aggregator, and the call of worker j.
AggregatorCalls == {k \in 1..Len(calls) : calls[k].role = "aggregator"}
WorkerCall(j) == calls[taskPromises[j]]
Workers == 1..Len(taskPromises)

\* C11: in every interleaving of worker completions the aggregator's process
\* is invoked only once all N workers have completed successfully, never
\* while a worker is outstanding.
C11_AggregatorAfterAllWorkers ==
  AggregatorCalls # {} =>
    /\ Len(taskPromises) = Len(parAgents)
    /\ \A j \in Workers : WorkerCall(j).status = "resolved"
    /\ \A k \in AggregatorCalls : \A j \in Workers : taskPromises[j] < k

\* The aggregator was invoked after worker 2 completed before worker 1.
C11_Witness ==
  /\ AggregatorCalls # {} /\ Len(parAgents) = 2
  /\ settled[1] = taskPromises[2] /\ settled[2] = taskPromises[1]

\* C12: if at least one worker fails, run fails with a worker's failure and
\* the aggregator's process is never invoked, whichever worker fails and in
\* every interleaving.
C12_NoPartialAggregation ==
  (\E j \in Workers : WorkerCall(j).status = "rejected") =>
    /\ AggregatorCalls = {}
    /\ ppc \in {"await_all", "failed"}
    /\ ppc = "failed" =>
         \E j \in Workers : /\ WorkerCall(j).status = "rejected"
                            /\ perror = WorkerCall(j).error

\* Worker 1 succeeded, worker 2 failed, run failed.
C12_Witness ==
  /\ ppc = "failed" /\ Len(taskPromises) = 2
  /\ WorkerCall(1).status = "resolved" /\ WorkerCall(2).status = "rejected"

\* The text of blocks j..n, each preceded by the separator of the join.
RECURSIVE LabelledBlocks(_, _)
LabelledBlocks(outs, j) ==
  IF j > Len(outs) THEN <<>>
  ELSE <<"\n", "Result ", ToString(j), ":", "\n">> \o outs[j] \o <<"\n">>
         \o LabelledBlocks(outs, j + 1)

\* C13: the aggregator receives the fixed instruction header followed by one
\* block per worker, block i labelled "Result i:" (1-based) and carrying the
\* output of worker i, in worker index order, whatever the completion order.
C13_AggregationInputByIndex ==
  \A k \in AggregatorCalls :
    calls[k].input =
      <<"Combine the following outputs into a single cohesive summary:", "\n">>
        \o LabelledBlocks([j \in Workers |-> WorkerCall(j).output], 1)

\* Two workers with different outputs, the second completing first.
C13_Witness ==
  /\ AggregatorCalls # {} /\ Len(taskPromises) = 2
  /\ WorkerCall(1).output # WorkerCall(2).output
  /\ settled[1] = taskPromises[2]

\* C14: when every worker succeeds the aggregator's process is invoked exactly
\* once, run returns exactly the aggregator's output, and a failure of the
\* aggregator is the failure of run.
C14_RunReturnsAggregatorOutput ==
  /\ Cardinality(AggregatorCalls) <= 1
  /\ ppc \in {"await_agg", "done"} => Cardinality(AggregatorCalls) = 1
  /\ \A k \in AggregatorCalls :
       /\ ppc = "done" => calls[k].status = "resolved" /\ presult = calls[k].output
       /\ calls[k].status = "rejected" => ppc \in {"await_agg", "failed"}
       /\ (calls[k].status = "rejected" /\ ppc = "failed") => perror = calls[k].error
       /\ ppc = "failed" => calls[k].status = "rejected"

\* run returned the aggregator's output, which differs from the prompt built.
C14_Witness ==
  /\ ppc = "done" /\ Cardinality(AggregatorCalls) = 1
  /\ presult = calls[Len(calls)].output /\ presult # aggregatedPrompt

\* C15 as stated: while a worker's process has not completed, run has neither
\* returned nor failed, whatever the other workers do.
C15_HungWorkerHangsRun ==
  (\E j \in Workers : WorkerCall(j).status = "pending") =>
    ppc \notin {"done", "failed"}

\* C15 as amended: while a worker's process has not completed and no other
\* worker has failed, run is still waiting for the workers: it has neither
\* returned nor failed, and the aggregator has not been invoked.
C15_HungWorkerHangsRunUnlessFailure ==
  (/\ \E j \in Workers : WorkerCall(j).status = "pending"
   /\ \A j \in Workers : WorkerCall(j).status # "rejected") =>
    /\ ppc = "await_all"
    /\ AggregatorCalls = {}

\* Worker 2 has completed and run still waits for worker 1.
C15_Witness ==
  /\ ppc = "await_all" /\ Len(taskPromises) = 2
  /\ WorkerCall(1).status = "pending" /\ WorkerCall(2).status = "resolved"

\* C16: once a worker has failed, run fails at its next step, with workers
\* still outstanding or not: the only step run can take is to fail.
C16_FailsWithoutWaiting ==
  (ppc = "await_all" /\ \E j \in Workers : WorkerCall(j).status = "rejected") =>
    /\ ENABLED (ParResume /\ ppc' = "failed")
    /\ ~ENABLED (ParResume /\ ppc' # "failed")

\* run has failed while a worker is still outstanding.
C16_Witness ==
  /\ ppc = "failed" /\ Len(taskPromises) = 2
  /\ \E j \in Workers : WorkerCall(j).status = "pending"
  /\ \E j \in Workers : WorkerCall(j).status = "rejected" /\ perror = WorkerCall(j).error

SaveChatEnabled == options.saveChat = "true"

\* The constructor was handed no store, or no identifier where the identifier
\* is a constructor option (the session-keyed Agent takes the session id with
\* every helper call, not at construction).
DependencyMissing ==
  \/ options.memoryClient \in {Undefined, ""}
  \/ options.variant = "mem0" /\ options.mem0UserId \in {Undefined, ""}

Named(name) == {k \in 1..Len(this.tools) : this.tools[k].name = name}

\* C19: getToolByName(name) returns the first tool of the list whose name is
\* exactly name, returns the absent value without failing when there is none,
\* and leaves the tool list as the constructor built it.
C19_GetToolByName ==
  (helper.name = "getToolByName" /\ hpc = "returned") =>
    LET name == helper.text[1] IN
    /\ herror = NoError
    /\ IF Named(name) = {}
         THEN found = <<>>
         ELSE /\ found = <<this.tools[CHOOSE k \in Named(name) :
                                        \A m \in Named(name) : k <= m]>>
              /\ found[1].name = name
    /\ this.tools = ToolsOf(options.tools)

\* Two tools share the name looked up and the first one is returned.
C19_Witness ==
  /\ helper.name = "getToolByName" /\ hpc = "returned"
  /\ Len(this.tools) = 2 /\ Named(helper.text[1]) = {1, 2}
  /\ found = <<this.tools[1]>>

\* The store has answered the helper's call with a fault and the helper has
\* gone on from it.
StoreFaulted ==
  /\ storeCalls # <<>>
  /\ storeCalls[Len(storeCalls)].status = "fault"
  /\ hpc # "await"

\* C20: when the history store raises a fault, the helper catches it, logs an
\* error and completes normally with the safe default (nothing for a write,
\* the empty list for a read); the fault never leaves the helper.
C20_StoreFaultIsCaught ==
  StoreFaulted =>
    /\ hpc = "returned"
    /\ herror = NoError
    /\ hresult = <<>>
    /\ Len(logs) = 1
    /\ logs[1].fault = storeCalls[Len(storeCalls)].fault

\* The session-keyed Agent's helper ended with the store's fault.
C20_Witness ==
  /\ StoreFaulted /\ this.variant = "session"
  /\ hpc = "threw" /\ herror = storeCalls[Len(storeCalls)].fault
  /\ logs = <<>>


\* C29: in runStream only the terminal stage streams: every stage before the
\* last is called through process, the last through processStream, and a chain
\* of one agent makes no process call and streams the initial input.
C29_OnlyTerminalStageStreams ==
  op = "runStream" =>
    /\ \A k \in 1..Len(calls) :
         /\ calls[k].pos < Len(chainAgents) => calls[k].method = "process"
         /\ calls[k].pos = Len(chainAgents) => calls[k].method = "processStream"
    /\ Len(chainAgents) = 1 =>
         \A k \in 1..Len(calls) : /\ calls[k].method = "processStream"
                                  /\ calls[k].input = promptInput

\* A one-agent chain has streamed to its end.
C29_Witness ==
  /\ op = "runStream" /\ pc = "done" /\ Len(chainAgents) = 1
  /\ Len(calls) = 1 /\ calls[1].method = "processStream"
  /\ yielded # <<>>


\* The agent has no store, or no identifier where the identifier is a field.
Unconfigured ==
  \/ this.memoryClient \in {Undefined, ""}
  \/ this.variant = "mem0" /\ this.mem0UserId \in {Undefined, ""}

\* The helper call named has run to its end (or to its store call).
Called(name) == helper.name = name /\ hpc # "idle"

\* C22 as stated: with history disabled (saveChat = false) or unconfigured,
\* saveChatHistory writes nothing and fetchChatHistory returns the empty list
\* without reading the store.
C22_DisabledHistoryIsUntouched ==
  (~this.saveChat \/ Unconfigured) =>
    /\ Called("saveChatHistory") => storeCalls = <<>>
    /\ Called("fetchChatHistory") =>
         storeCalls = <<>> /\ hpc = "returned" /\ hresult = <<>>

\* C22, amended: saveChatHistory writes nothing when saveChat is false or the
\* agent is unconfigured; fetchChatHistory returns the empty list without
\* reading only when the agent is unconfigured, and reads the store of a
\* configured agent whatever saveChat is.
C22_UnconfiguredHistoryIsUntouched ==
  /\ (Called("saveChatHistory") /\ (~this.saveChat \/ Unconfigured)) =>
       storeCalls = <<>> /\ hpc = "returned"
  /\ (Called("fetchChatHistory") /\ Unconfigured) =>
       storeCalls = <<>> /\ hpc = "returned" /\ hresult = <<>>
  /\ (Called("fetchChatHistory") /\ ~Unconfigured) =>
       /\ Len(storeCalls) = 1
       /\ storeCalls[1].method \in {"search", "getMessages"}

\* An agent with saveChat = false and a store has read its history.
C22_Witness ==
  /\ Called("fetchChatHistory") /\ ~this.saveChat /\ ~Unconfigured
  /\ hpc = "returned" /\ hresult # <<>>
  /\ storeCalls[1].status = "ok"

\* C28: every store access of the agent (add, search, getAll) is keyed by the
\* agent's own user identifier, a save passes the caller's metadata alongside,
\* and a read asks for 10 results when the caller gives no limit.
C28_KeyedByOwnIdentifier ==
  this.variant = "mem0" =>
    \A k \in 1..Len(storeCalls) :
      LET c == storeCalls[k] IN
      /\ c.method \in {"add", "search", "getAll"} => c.key = this.mem0UserId
      /\ c.method = "add" => c.meta = helper.meta
      /\ c.method \in {"search", "getAll"} =>
           c.limit = (IF helper.limit = <<>> THEN 10 ELSE helper.limit[1])

\* A save went to the store under the identifier found in the metadata.
C28_Witness ==
  /\ this.variant = "mem0" /\ Called("saveChatHistory")
  /\ Len(storeCalls) = 1 /\ storeCalls[1].method = "add"
  /\ helper.meta.user_id = "u2" /\ this.mem0UserId = "u1"
  /\ storeCalls[1].key = "u2"


\* The writes made to the history store, in order.
Adds == SelectSeq(storeCalls, LAMBDA c : c.method = "add")

\* The last call made to the provider.
LastProviderCall == providerCalls[Len(providerCalls)]

\* The history read of the turn was answered with a fault.
ReadFaulted ==
  /\ storeCalls # <<>> /\ storeCalls[1].method = "search"
  /\ storeCalls[1].status = "fault" /\ tpc # "fetch"

\* C21: a failed history read at the start of process leaves process with an
\* empty history and a logged error, and neither it nor a failed history write
\* makes process fail: process fails only for the provider or a tool, and
\* returns the response once the provider has answered.
C21_HistoryFaultsDoNotFailProcess ==
  tmode = "process" =>
    /\ ReadFaulted =>
         /\ memories = <<>>
         /\ providerCalls # <<>> /\ providerCalls[1].history = <<>>
         /\ \E k \in 1..Len(logs) :
              logs[k] = [message |-> "Failed to fetch chat history:",
                         fault |-> StoreError(storeCalls[1].fault)]
    /\ tpc = "failed" =>
         terror.kind \in {"provider", "Tool not found", "Tool execution failed",
                          "Tool has no executable raw"}
    /\ (tpc \in {"done", "failed"} /\ providerCalls[1].status = "ok"
        /\ providerCalls[1].functionCalls \in {<<>>, << <<>> >>}) =>
         /\ tpc = "done"
         /\ tresult = TextOr(providerCalls[1].text)

\* process has returned the model's text although the read and a write failed.
C21_Witness ==
  /\ tmode = "process" /\ tpc = "done" /\ ReadFaulted
  /\ Len(Adds) = 2 /\ Adds[1].status = "fault" /\ Adds[2].status = "fault"
  /\ tresult = <<"m">> /\ Len(logs) = 3

C24_AtMostOneTool ==
  tmode # "none" =>
    /\ Len(toolRuns) <= 1
    /\ toolRuns # <<>> =>
         /\ LastProviderCall.method = "generateContent"
         /\ LastProviderCall.functionCalls # <<>>
         /\ LastProviderCall.functionCalls[1] # <<>>
         /\ toolRuns[1].name = LastProviderCall.functionCalls[1][1]
    /\ (tmode = "process" /\ tpc = "done" /\ toolRuns # <<>>) =>
         tresult = ToolText(toolRuns[1].result)

\* The response asked for two tools; one ran and its result was returned.
C24_Witness ==
  /\ tmode = "process" /\ tpc = "done"
  /\ LastProviderCall.functionCalls = << <<"tool1", "tool2">> >>
  /\ LastProviderCall.text = << <<"m">> >>
  /\ Len(toolRuns) = 1 /\ toolRuns[1].name = "tool1"
  /\ tresult = <<"{", "r", "}">>

\* The tool the last response asks for first: <<>> when it asks for none.
Asked ==
  IF providerCalls # <<>> /\ LastProviderCall.method = "generateContent"
     /\ LastProviderCall.status = "ok" /\ tpc \notin {"generate", "final"}
     /\ LastProviderCall.functionCalls # <<>>
     /\ LastProviderCall.functionCalls[1] # <<>>
    THEN <<LastProviderCall.functionCalls[1][1]>> ELSE <<>>

\* C25: executing a tool fails as 'Tool not found' exactly when no tool of the
\* list has the name asked for (and then no handler runs), as 'Tool execution
\* failed' exactly when the tool was found and its handler raised; a handler
\* that succeeds gives neither.
C25_ToolFailuresAreDistinct ==
  /\ (Asked # <<>> /\ Named(Asked[1]) = {}) =>
       /\ tpc = "failed" /\ terror = ToolNotFound(Asked[1])
       /\ toolRuns = <<>>
  /\ terror.kind = "Tool not found" =>
       Asked # <<>> /\ Named(Asked[1]) = {}
  /\ (toolRuns # <<>> /\ toolRuns[1].status = "fault" /\ tpc # "tool") =>
       /\ tpc = "failed"
       /\ terror = ToolFailed(toolRuns[1].name, toolRuns[1].fault)
       /\ Named(toolRuns[1].name) # {}
  /\ terror.kind = "Tool execution failed" =>
       toolRuns # <<>> /\ toolRuns[1].status = "fault"
  /\ (toolRuns # <<>> /\ toolRuns[1].status = "ok") =>
       terror.kind \notin {"Tool not found", "Tool execution failed"}

\* The handler of a tool that was found raised.
C25_Witness ==
  /\ tpc = "failed" /\ terror.kind = "Tool execution failed"
  /\ toolRuns # <<>> /\ toolRuns[1].status = "fault"
  /\ terror.cause = toolRuns[1].fault /\ Named(terror.name) # {}

\* The provider, or the handler of the tool, has failed and the turn has seen it.
ProviderFaulted ==
  /\ providerCalls # <<>> /\ LastProviderCall.status = "fault"
  /\ tpc \notin {"generate", "final"}
ToolFaulted ==
  toolRuns # <<>> /\ toolRuns[1].status = "fault" /\ tpc # "tool"

\* C26: a failure of the provider or of the tool execution is logged and then
\* leaves process / processStream as that failure: the turn ends failed, with
\* no text returned, the failure being the last thing logged.
C26_UpstreamFailurePropagates ==
  /\ ProviderFaulted => terror = ProviderError(LastProviderCall.fault)
  /\ ToolFaulted => terror = ToolFailed(toolRuns[1].name, toolRuns[1].fault)
  /\ (ProviderFaulted \/ ToolFaulted \/ terror # NoTurnError) =>
       /\ tpc = "failed" /\ tresult = <<>>
       /\ logs # <<>>
       /\ logs[Len(logs)] = [message |-> FailMessage(tmode), fault |-> terror]
       /\ Adds = <<>>

\* processStream failed after it had yielded a chunk.
C26_Witness ==
  /\ tmode = "processStream" /\ tpc = "failed" /\ ProviderFaulted
  /\ tyielded # <<>>
  /\ logs[Len(logs)].message = "Failed to process streaming input:"

\* The text increments the provider stream delivered, in order.
RECURSIVE Increments(_)
Increments(chunks) ==
  IF chunks = <<>> THEN <<>>
  ELSE IF Head(chunks) = <<>> THEN Increments(Tail(chunks))
  ELSE <<Head(chunks)[1]>> \o Increments(Tail(chunks))

\* C27: a successful processStream turn yields the provider stream's text
\* increments in provider order, then at most one tool chunk, and nothing else.
C27_StreamYieldsIncrementsThenToolChunk ==
  (tmode = "processStream" /\ tpc = "done") =>
    LET incs == Increments(providerCalls[1].chunks)
        n    == Len(incs)
    IN /\ providerCalls[1].status = "ok"
       /\ Len(tyielded) = n + Len(toolRuns)
       /\ \A k \in 1..n : tyielded[k] = incs[k]
       /\ toolRuns # <<>> =>
            tyielded[n + 1] = ToolChunk(toolRuns[1].name, ToolText(toolRuns[1].result))

\* The increment " y" of the provider was yielded as "y".
C27_Witness ==
  /\ tmode = "processStream" /\ tpc = "done"
  /\ providerCalls[1].chunks = << << <<" ", "y">> >> >>
  /\ tyielded = << <<"y">> >>


\* What PromptChainPattern.run returns for input x when it runs alone.
RECURSIVE AloneChain(_, _)
AloneChain(agents, x) ==
  IF agents = <<>> THEN x ELSE AloneChain(Tail(agents), Answer(Head(agents), x))

\* What ParallelizationPattern.run returns for prompts ps when it runs alone.
AloneGroup(agents, agg, ps) ==
  Answer(agg, BuildAggregationPrompt([k \in 1..Len(agents) |->
                                        Answer(agents[k], ps[k])]))

\* C30: run leaves the chain's agent list, the group's worker list and its
\* aggregator as constructed, and each of two overlapping runs on the same
\* pattern returns what it would return running alone on its own input.
C30_OverlappingRunsAreIndependent ==
  /\ chainState = "constructed" => chainAgents = chainArg
  /\ parState = "constructed" =>
       parAgents = parArg.agents /\ aggregator = parArg.aggregator
  /\ \A r \in RunIds :
       runs[r].pc = "done" =>
         runs[r].result =
           IF runs[r].pattern = "chain"
             THEN AloneChain(chainAgents, runs[r].input)
             ELSE AloneGroup(parAgents, aggregator, runs[r].input)

\* Two runs on one group, on different prompts, have interleaved their agent
\* calls and both returned.
C30_Witness ==
  /\ runs[1].pc = "done" /\ runs[2].pc = "done"
  /\ runs[1].pattern = "group" /\ Len(parAgents) = 2
  /\ runs[1].input # runs[2].input
  /\ runs[2].mine[1] < runs[1].mine[Len(runs[1].mine)]
  /\ runs[1].mine[1] < runs[2].mine[Len(runs[2].mine)]
  /\ runs[1].result # runs[2].result


\* C31: a process turn that fails (provider failure, tool not found, tool
\* execution failure) has written nothing to the history store, so a write of
\* a turn's user message exists only when the turn's response was produced.
C31_FailedTurnWritesNothing ==
  tmode = "process" =>
    /\ tpc = "failed" => Adds = <<>>
    /\ Adds # <<>> =>
         /\ tpc \in {"save_user", "save_assistant", "done"}
         /\ providerCalls[1].status = "ok"
         /\ Asked # <<>> => (toolRuns # <<>> /\ toolRuns[1].status = "ok")

\* A turn of an agent that saves its chat failed in its tool and wrote nothing.
C31_Witness ==
  /\ tmode = "process" /\ tpc = "failed" /\ this.saveChat
  /\ ToolFaulted /\ Adds = <<>>
  /\ storeCalls # <<>> /\ storeCalls[1].method = "search"

\* run has reported the failure of a worker to its caller.
WorkerFailureReported ==
  ppc = "failed" /\ \E j \in Workers : WorkerCall(j).status = "rejected"

\* C32: after run has failed for a worker, the other workers are not
\* cancelled: each still outstanding can complete or fail; whatever they do,
\* the aggregator is never invoked, nothing is returned and the failure
\* reported stays the same.
C32_StragglersRunOnUnheard ==
  /\ [](WorkerFailureReported =>
         /\ AggregatorCalls = {} /\ presult = <<>>
         /\ \A j \in Workers :
              WorkerCall(j).status = "pending" =>
                /\ ENABLED (ParEnv /\ calls'[taskPromises[j]].status = "resolved")
                /\ ENABLED (ParEnv /\ calls'[taskPromises[j]].status = "rejected"))
  /\ [][WorkerFailureReported =>
          /\ ppc' = "failed" /\ perror' = perror /\ presult' = presult
          /\ Len(calls') = Len(calls)]_vars

\* A worker completed after run had failed for another: the failure reported
\* is still the first one and there is no aggregator call.
C32_Witness ==
  /\ WorkerFailureReported /\ Len(taskPromises) = 2
  /\ WorkerCall(1).status = "resolved" /\ WorkerCall(2).status = "rejected"
  /\ settled = <<taskPromises[2], taskPromises[1]>>
  /\ perror = WorkerCall(2).error /\ AggregatorCalls = {}

\* The worker call that was rejected first in time.
FirstRejected ==
  LET rejected == {n \in 1..Len(settled) :
                     /\ \E j \in Workers : taskPromises[j] = settled[n]
                     /\ calls[settled[n]].status = "rejected"}
  IN settled[CHOOSE n \in rejected : \A m \in rejected : n <= m]

\* C33: when several workers fail in one run the caller receives one failure,
\* that of the worker that failed first in time, whatever its index.
C33_FirstFailureInTimeWins ==
  WorkerFailureReported => perror = calls[FirstRejected].error

\* Worker 2 failed before worker 1 did, with another error; run reports
\* worker 2's.
C33_Witness ==
  /\ WorkerFailureReported /\ Len(taskPromises) = 2
  /\ WorkerCall(1).status = "rejected" /\ WorkerCall(2).status = "rejected"
  /\ WorkerCall(1).error # WorkerCall(2).error
  /\ settled = <<taskPromises[2], taskPromises[1]>>
  /\ perror = WorkerCall(2).error

====
